---- MODULE Spec2Model ----
(***************************************************************************)
(* pyhdlsim (src/src/pyhdlsim.py): a wrapper that builds the command lines *)
(* and project files of three HDL simulators, launches them as child       *)
(* processes and scans their standard output for error markers.            *)
(*                                                                         *)
(* A Python str is modelled as a sequence of one-character strings, a list *)
(* as a sequence, None as the record None below.                           *)
(*                                                                         *)
(* Three specifications share the variables:                                *)
(*   SpecConfig  Simulator.__init__, the caller's additions to the lists,  *)
(*               run() and the adapter up to its first _exec call;         *)
(*   Spec        the adapter's sequence of _exec calls, each with its      *)
(*               child process, the two pipes and the read loop;           *)
(*   SpecDefine  get_define / Simulator.get_define.                        *)
(***************************************************************************)
EXTENDS Integers, Sequences, FiniteSets, TLC

VARIABLES
    procdir,     \* the current directory of the Python process
    fs,          \* the file system: path -> Dir or File(text)
    fs0,         \* history: the file system before Simulator(...) was called
    ctor,        \* the arguments given to Simulator(...)
    sim,         \* the Simulator object's fields (or NoSim before __init__)
    pc,          \* position of the Python thread
    exc,         \* the exception that left the call, or None
    call,        \* the arguments (prog, args) of the current _exec call
    launched,    \* the programs handed to subprocess.Popen so far, in order
    returned,    \* number of _exec calls that returned without raising
    child,       \* the child process of the current _exec call
    stdoutPipe,  \* lines written to the child's stdout and not yet read
    stderrPipe,  \* chunks written to the child's stderr (never read)
    output,      \* the local `output` of _exec's loop
    readLog,     \* history: the values `output` took in this _exec call
    written,     \* history: the lines the child wrote to stdout
    printed,     \* what this _exec call's loop printed (line 142)
    arg,         \* the argument of the pending get_define call
    result       \* the value the last get_define call returned

vars == <<procdir, fs, fs0, ctor, sim, pc, exc, call, launched, returned, child,
          stdoutPipe, stderrPipe, output, readLog, written, printed, arg, result>>

cfgVars == <<procdir, fs, fs0, ctor, sim, call>>
runVars == <<launched, returned, child, stdoutPipe, stderrPipe, output,
             readLog, written, printed>>
defVars == <<arg, result>>

(***************************************************************************)
(* Bounds of the model.                                                    *)
(***************************************************************************)
MaxLines == 2      \* lines a child writes to stdout
MaxErr == 3        \* chunks a child writes to stderr
PipeCap == 1       \* capacity of an OS pipe, in lines / chunks
MaxSources == 2    \* entries the caller appends to sim.sources
MaxDefines == 1    \* entries the caller appends to sim.defines
MaxIncdirs == 1    \* entries the caller appends to sim.incdirs
MaxList == 2       \* length of the defines list given to get_define

\* Python values that may be None: None, a str, a raised exception
None == [type |-> "None", args |-> <<>>]
StrVal(s) == [type |-> "str", args |-> s]
Raised(type, args) == [type |-> type, args |-> args]

(***************************************************************************)
(* str operations                                                          *)
(***************************************************************************)
Whitespace == {" ", "\t", "\n", "\r"}

RECURSIVE LStrip(_)
LStrip(s) == IF s = <<>> \/ Head(s) \notin Whitespace THEN s ELSE LStrip(Tail(s))

RECURSIVE RStrip(_)
RStrip(s) ==
    IF s = <<>> \/ s[Len(s)] \notin Whitespace THEN s
    ELSE RStrip(SubSeq(s, 1, Len(s) - 1))

\* str.strip()
Strip(s) == RStrip(LStrip(s))

\* sub in s
Contains(sub, s) ==
    \E i \in 1..(Len(s) - Len(sub) + 1) : SubSeq(s, i, i + Len(sub) - 1) = sub

\* s.replace(old, new), for a non-empty old: left to right, without overlap
RECURSIVE Replace(_, _, _)
Replace(s, old, new) ==
    IF Len(s) < Len(old) THEN s
    ELSE IF SubSeq(s, 1, Len(old)) = old
         THEN new \o Replace(SubSeq(s, Len(old) + 1, Len(s)), old, new)
         ELSE <<Head(s)>> \o Replace(Tail(s), old, new)

\* s.rfind(c) + 1: the last position of character c in s, 0 when absent
RECURSIVE RFind(_, _)
RFind(s, c) ==
    IF s = <<>> THEN 0
    ELSE IF s[Len(s)] = c THEN Len(s)
    ELSE RFind(SubSeq(s, 1, Len(s) - 1), c)

\* s.split(c)[-1]
SplitLast(s, c) == SubSeq(s, RFind(s, c) + 1, Len(s))

\* s.split(): the maximal runs of non-whitespace characters
RECURSIVE SplitWs(_, _)
SplitWs(s, word) ==
    IF s = <<>> THEN (IF word = <<>> THEN <<>> ELSE <<word>>)
    ELSE IF Head(s) \in Whitespace
         THEN (IF word = <<>> THEN <<>> ELSE <<word>>) \o SplitWs(Tail(s), <<>>)
         ELSE SplitWs(Tail(s), Append(word, Head(s)))

\* sep.join(list)
RECURSIVE Join(_, _)
Join(sep, list) ==
    IF list = <<>> THEN <<>>
    ELSE IF Len(list) = 1 THEN list[1]
    ELSE list[1] \o sep \o Join(sep, Tail(list))

\* [f(x) for x in list], f given as a prefix and a suffix around x
Each(pre, list, post) == [i \in 1..Len(list) |-> pre \o list[i] \o post]

RECURSIVE Flatten(_)
Flatten(list) == IF list = <<>> THEN <<>> ELSE Head(list) \o Flatten(Tail(list))

(***************************************************************************)
(* Path helpers                                                            *)
(***************************************************************************)
\* Path(p).name: the final component
PathName(p) == SubSeq(p, RFind(p, "/") + 1, Len(p))

\* Path(p).parent of an absolute path
PathParent(p) ==
    LET i == RFind(p, "/") IN IF i <= 1 THEN <<"/">> ELSE SubSeq(p, 1, i - 1)

\* file_ext: Path(filepath).suffix
file_ext(filepath) ==
    LET n == PathName(filepath)
        i == RFind(n, ".")
    IN  IF 1 < i /\ i < Len(n) THEN SubSeq(n, i, Len(n)) ELSE <<>>

\* str(Path(p).resolve()).replace('\\', '/') in a process whose directory is dir
Resolve(p, dir) ==
    IF p = <<".">> THEN dir
    ELSE IF p # <<>> /\ Head(p) = "/" THEN p
    ELSE dir \o <<"/">> \o p

\* the directory that holds pyhdlsim.py: parent_dir(__file__)
ModuleFile == <<"/", "t", "/", "p", "y", "h", "d", "l", "s", "i", "m", ".", "p", "y">>
parent_dir(filepath) == PathParent(filepath)

\* the entries of the file system
Dir == [kind |-> "dir", text |-> <<>>]
File(text) == [kind |-> "file", text |-> text]

Exists(f, p) == p \in DOMAIN f
IsDir(f, p) == Exists(f, p) /\ f[p].kind = "dir"
Children(f, p) == {q \in DOMAIN f : q # p /\ PathParent(q) = p}
Without(f, p) == [q \in DOMAIN f \ {p} |-> f[q]]
With(f, p, v) == [q \in DOMAIN f \cup {p} |-> IF q = p THEN v ELSE f[q]]

\* remove_tree: the files and subtrees below dirpath one child at a time, then
\* dirpath itself; nothing when dirpath is missing or is a file
RECURSIVE remove_tree(_, _)
RECURSIVE RemoveChildren(_, _)
RemoveChildren(f, p) ==
    IF Children(f, p) = {} THEN f
    ELSE LET c == CHOOSE q \in Children(f, p) : TRUE
         IN  RemoveChildren(IF IsDir(f, c) THEN remove_tree(f, c) ELSE Without(f, c), p)
remove_tree(f, dirpath) ==
    IF IsDir(f, dirpath) THEN Without(RemoveChildren(f, dirpath), dirpath) ELSE f

\* make_dir: Path(name).mkdir(); [exc, fs]
make_dir(f, name) ==
    IF Exists(f, name)
    THEN [exc |-> Raised("FileExistsError", <<name>>), fs |-> f]
    ELSE IF ~IsDir(f, PathParent(name))
    THEN [exc |-> Raised("FileNotFoundError", <<name>>), fs |-> f]
    ELSE [exc |-> None, fs |-> With(f, name, Dir)]

(***************************************************************************)
(* get_define                                                              *)
(***************************************************************************)
\* next(d for d in defines if name in d): the index, from i on, of the first
\* entry that contains name; 0 stands for StopIteration
RECURSIVE FirstWith(_, _, _)
FirstWith(name, defines, i) ==
    IF i > Len(defines) THEN 0
    ELSE IF Contains(name, defines[i]) THEN i
    ELSE FirstWith(name, defines, i + 1)

get_define(name, defines) ==
    LET i == FirstWith(name, defines, 1)
    IN  IF i = 0 THEN None ELSE StrVal(SplitLast(defines[i], "="))

(***************************************************************************)
(* Simulator.__init__                                                      *)
(***************************************************************************)
Runners == {<<"i", "c", "a", "r", "u", "s">>, <<"m", "o", "d", "e", "l", "s", "i", "m">>, <<"v", "i", "v", "a", "d", "o">>}

sim_errors == <<<<"$", "e", "r", "r", "o", "r", " ", ":", " ">>, <<"E", "r", "r", "o", "r", ":", " ">>, <<"E", "R", "R", "O", "R", ":", " ">>, <<"A", "s", "s", "e", "r", "t", "i", "o", "n", " ", "e", "r", "r", "o", "r">>>>

\* the fields before __init__ has set them
NoSim ==
    [name |-> <<>>, gui |-> FALSE, cwd |-> <<>>, worklib |-> <<>>, top |-> <<>>,
     sources |-> <<>>, defines |-> <<>>, params |-> <<>>, incdirs |-> <<>>,
     stdout |-> <<>>, retcode |-> 0, sim_errors |-> <<>>]

\* lines 62-85: the fields __init__ sets
NewSim(name, gui, cwd) ==
    [name |-> name, gui |-> gui, cwd |-> cwd,
     worklib |-> <<"w", "o", "r", "k", "l", "i", "b">>, top |-> <<"t", "o", "p">>,
     sources |-> <<>>, defines |-> <<>>, params |-> <<>>, incdirs |-> <<>>,
     stdout |-> <<>>, retcode |-> 0, sim_errors |-> sim_errors]

\* Construct with the workspace torn down and recreated before the two checks
ConstructEager(name, gui, cwd, dir, f) ==
    LET c == Resolve(cwd, dir)
        m == make_dir(remove_tree(f, c), c)
    IN  IF parent_dir(ModuleFile) = c
        THEN [exc |-> Raised("ValueError", <<<<"W", "r", "o", "n", "g", " ", "w", "o", "r", "k", "i", "n", "g", " ", "d", "i", "r", "e", "c", "t", "o", "r", "y">>, c>>),
              sim |-> NoSim, fs |-> m.fs]
        ELSE IF name \notin Runners
        THEN [exc |-> Raised("ValueError", <<<<"U", "n", "k", "n", "o", "w", "n", " ", "s", "i", "m", "u", "l", "a", "t", "o", "r", " ", "t", "o", "o", "l">>, name>>),
              sim |-> NoSim, fs |-> m.fs]
        ELSE [exc |-> m.exc,
              sim |-> IF m.exc = None THEN NewSim(name, gui, c) ELSE NoSim,
              fs |-> m.fs]

\* [exc, sim, fs] of Simulator(name, gui, cwd) in a process whose directory is dir
Construct(name, gui, cwd, dir, f) ==
    LET c == Resolve(cwd, dir) IN
    IF parent_dir(ModuleFile) = c
    THEN [exc |-> Raised("ValueError", <<<<"W", "r", "o", "n", "g", " ", "w", "o", "r", "k", "i", "n", "g", " ", "d", "i", "r", "e", "c", "t", "o", "r", "y">>, c>>),
          sim |-> NoSim, fs |-> f]
    ELSE IF name \notin Runners
    THEN [exc |-> Raised("ValueError", <<<<"U", "n", "k", "n", "o", "w", "n", " ", "s", "i", "m", "u", "l", "a", "t", "o", "r", " ", "t", "o", "o", "l">>, name>>),
          sim |-> NoSim, fs |-> f]
    ELSE LET m == make_dir(remove_tree(f, c), c)
         IN  [exc |-> m.exc,
              sim |-> IF m.exc = None THEN NewSim(name, gui, c) ELSE NoSim,
              fs |-> m.fs]

(***************************************************************************)
(* run() and the adapters                                                  *)
(***************************************************************************)
\* lines 99-102: the preprocessing of run()
Preprocess(s, dir) ==
    [s EXCEPT !.sources = [i \in 1..Len(s.sources) |-> Resolve(s.sources[i], dir)],
              !.incdirs = [i \in 1..Len(s.incdirs) |-> Resolve(s.incdirs[i], dir)],
              !.defines = s.defines \o <<<<"T", "O", "P", "_", "N", "A", "M", "E", "=">> \o s.top, <<"S", "I", "M">>>>]

\* IcarusElabArgs with the source files put before the flags
IcarusElabArgsSourcesFirst(s) ==
    Join(<<" ">>, s.sources) \o <<" ">>
    \o Join(<<" ">>, Each(<<"-", "I", " ">>, s.incdirs, <<>>)) \o <<" ">>
    \o Join(<<" ">>, Each(<<"-", "D", " ">>, s.defines, <<>>)) \o <<" ">>
    \o <<"-", "g", "2", "0", "0", "5", "-", "s", "v", " ", "-", "s", " ">> \o s.top \o <<" ", "-", "o", " ">> \o s.worklib \o <<".", "v", "v", "p">>

\* _run_icarus, lines 154-158
IcarusElabArgs(s) ==
    Join(<<" ">>, Each(<<"-", "I", " ">>, s.incdirs, <<>>)) \o <<" ">>
    \o Join(<<" ">>, Each(<<"-", "D", " ">>, s.defines, <<>>)) \o <<" ">>
    \o <<"-", "g", "2", "0", "0", "5", "-", "s", "v", " ", "-", "s", " ">> \o s.top \o <<" ", "-", "o", " ">> \o s.worklib \o <<".", "v", "v", "p">> \o <<" ">>
    \o Join(<<" ">>, s.sources)

\* the _exec calls of _run_icarus, in order
IcarusCalls(s) ==
    <<[prog |-> <<"i", "v", "e", "r", "i", "l", "o", "g">>, args |-> IcarusElabArgs(s)],
      [prog |-> <<"v", "v", "p">>, args |-> s.worklib \o <<".", "v", "v", "p", " ", "-", "l", "x", "t", "2">>]>>
    \o (IF s.gui THEN <<[prog |-> <<"g", "t", "k", "w", "a", "v", "e">>, args |-> <<"d", "u", "m", "p", ".", "v", "c", "d">>]>> ELSE <<>>)

\* _run_vivado, lines 224-227
VivadoElabArgs(s) ==
    <<"-", "a", " ", "-", "-", "p", "r", "j", " ", "f", "i", "l", "e", "s", ".", "p", "r", "j", " ">> \o s.top \o <<" ", "-", "R", " ", "-", "n", "o", "l", "o", "g", " ", "-", "t", "i", "m", "e", "s", "c", "a", "l", "e", " ", "\"", "1", " ", "n", "s", " ", "/", " ", "1", " ", "p", "s", "\"", " ">>
    \o Join(<<" ">>, Each(<<"-", "d", " ", "\"">>, s.defines, <<"\"">>)) \o <<" ">>
    \o Join(<<" ">>, Each(<<"-", "-", "g", "e", "n", "e", "r", "i", "c", "_", "t", "o", "p", " ", "\"">>, s.params, <<"\"">>)) \o <<" ">>
    \o Join(<<" ">>, Each(<<"-", "i", " ">>, s.incdirs, <<>>)) \o <<" ">>

\* _run_vivado, lines 230-236: the project-file line of one source, as a list
\* of lines (none when no branch is taken)
VivadoLine(src) ==
    LET ext == file_ext(src) IN
    IF ext = <<".", "s", "v">> THEN <<<<"s", "v", " ", "w", "o", "r", "k", " ">> \o src \o <<"\n">>>>
    ELSE IF ext = <<".", "v">> THEN <<<<"v", "e", "r", "i", "l", "o", "g", " ", "w", "o", "r", "k", " ">> \o src \o <<"\n">>>>
    ELSE IF ext = <<"v", "h", "d">> THEN <<<<"v", "h", "d", "l", " ", "w", "o", "r", "k", " ">> \o src \o <<"\n">>>>
    ELSE <<>>

\* _run_vivado, lines 228-236: the lines accumulated in `sources`
VivadoPrjLines(srcs) ==
    Flatten([i \in 1..Len(srcs) |-> VivadoLine(srcs[i])])

VivadoCalls(s) == <<[prog |-> <<"x", "e", "l", "a", "b">>, args |-> VivadoElabArgs(s)]>>

\* _run_modelsim, lines 175-180: the compile line of one source
ModelsimLine(s, src) ==
    LET ext == file_ext(src)
        defines == Join(<<" ">>, Each(<<"+", "d", "e", "f", "i", "n", "e", "+">>, s.defines, <<>>))
        incdirs == Join(<<" ">>, Each(<<"+", "i", "n", "c", "d", "i", "r", "+">>, s.incdirs, <<>>))
    IN  IF ext \in {<<".", "v">>, <<".", "s", "v">>}
        THEN <<<<"v", "l", "o", "g", " ", "-", "n", "o", "l", "o", "g", "o", " ", "-", "s", "u", "p", "p", "r", "e", "s", "s", " ", "2", "9", "0", "2", " ">> \o defines \o <<" ">> \o incdirs
               \o <<" ", "-", "s", "v", " ", "-", "t", "i", "m", "e", "s", "c", "a", "l", "e", " ", "\"", "1", " ", "n", "s", " ", "/", " ", "1", " ", "p", "s", "\"", " ">> \o src \o <<"\n">>>>
        ELSE IF ext = <<"v", "h", "d">> THEN <<<<"v", "c", "o", "m", " ", "-", "9", "3", " ">> \o src \o <<"\n">>>>
        ELSE <<>>

\* _run_modelsim, lines 185-208: the text of compile.tcl
ModelsimTcl(s) ==
    <<"\n", " ", " ", " ", " ", " ", " ", " ", " ", " ", " ", " ", " ", "p", "r", "o", "c", " ", "r", "r", " ", " ", "{", "}", " ", "{", "\n">>
    \o <<" ", " ", " ", " ", " ", " ", " ", " ", " ", " ", " ", " ", " ", " ", "w", "r", "i", "t", "e", " ", "f", "o", "r", "m", "a", "t", " ", "w", "a", "v", "e", " ", "-", "w", "i", "n", "d", "o", "w", " ", ".", "m", "a", "i", "n", "_", "p", "a", "n", "e", ".", "w", "a", "v", "e", ".", "i", "n", "t", "e", "r", "i", "o", "r", ".", "c", "s", ".", "b", "o", "d", "y", ".", "p", "w", ".", "w", "f", " ", "w", "a", "v", "e", ".", "d", "o", "\n">>
    \o <<" ", " ", " ", " ", " ", " ", " ", " ", " ", " ", " ", " ", " ", " ", "u", "p", "l", "e", "v", "e", "l", " ", "#", "0", " ", "s", "o", "u", "r", "c", "e", " ", "c", "o", "m", "p", "i", "l", "e", ".", "t", "c", "l", "\n", " ", " ", " ", " ", " ", " ", " ", " ", " ", " ", " ", " ", "}", "\n">>
    \o <<" ", " ", " ", " ", " ", " ", " ", " ", " ", " ", " ", " ", "p", "r", "o", "c", " ", "q", " ", " ", "{", "}", " ", "{", "q", "u", "i", "t", " ", "-", "f", "o", "r", "c", "e", "}", "\n">>
    \o <<" ", " ", " ", " ", " ", " ", " ", " ", " ", " ", " ", " ", "v", "l", "i", "b", " ">> \o s.worklib \o <<"\n", " ", " ", " ", " ", " ", " ", " ", " ", " ", " ", " ", " ", "v", "m", "a", "p", " ", "w", "o", "r", "k", " ">> \o s.worklib
    \o <<"\n", " ", " ", " ", " ", " ", " ", " ", " ", " ", " ", " ", " ">>
    \o Flatten(Flatten([i \in 1..Len(s.sources) |-> ModelsimLine(s, s.sources[i])]))
    \o <<"\n", " ", " ", " ", " ", " ", " ", " ", " ", " ", " ", " ", " ", "e", "v", "a", "l", " ", "v", "s", "i", "m", " ">> \o s.worklib \o <<".">> \o s.top \o <<" ">>
    \o Flatten(Each(<<"-", "G", " ">>, s.params, <<" ">>))
    \o <<"\n", " ", " ", " ", " ", " ", " ", " ", " ", " ", " ", " ", " ", "i", "f", " ", "[", "f", "i", "l", "e", " ", "e", "x", "i", "s", "t", " ", "w", "a", "v", "e", ".", "d", "o", "]", " ", "{", "\n", " ", " ", " ", " ", " ", " ", " ", " ", " ", " ", " ", " ", " ", " ", "s", "o", "u", "r", "c", "e", " ", "w", "a", "v", "e", ".", "d", "o", "\n", " ", " ", " ", " ", " ", " ", " ", " ", " ", " ", " ", " ", "}", "\n", " ", " ", " ", " ", " ", " ", " ", " ", " ", " ", " ", " ">>
    \o (IF ~s.gui THEN <<"r", "u", "n", " ", "-", "a", "l", "l">> ELSE <<>>)
    \o <<"\n", " ", " ", " ", " ", " ", " ", " ", " ", " ", " ", " ", " ">>

\* _run_modelsim, lines 209-214
ModelsimArgs(s) ==
    <<"-", "d", "o", " ", "c", "o", "m", "p", "i", "l", "e", ".", "t", "c", "l">>
    \o (IF ~s.gui THEN <<" ", "-", "c", " ", "-", "6", "4", " ">> \o <<" ", "-", "o", "n", "f", "i", "n", "i", "s", "h", " ", "e", "x", "i", "t">> ELSE <<" ", "-", "o", "n", "f", "i", "n", "i", "s", "h", " ", "s", "t", "o", "p">>)

ModelsimCalls(s) == <<[prog |-> <<"v", "s", "i", "m">>, args |-> ModelsimArgs(s)]>>

\* self._runners[self.name]: the _exec calls of the selected adapter
AdapterCalls(s) ==
    IF s.name = <<"i", "c", "a", "r", "u", "s">> THEN IcarusCalls(s)
    ELSE IF s.name = <<"v", "i", "v", "a", "d", "o">> THEN VivadoCalls(s)
    ELSE ModelsimCalls(s)

\* the file an adapter writes into the workspace before its first _exec call
AdapterFiles(s, f) ==
    IF s.name = <<"v", "i", "v", "a", "d", "o">>
    THEN With(f, s.cwd \o <<"/", "f", "i", "l", "e", "s", ".", "p", "r", "j">>, File(Flatten(VivadoPrjLines(s.sources))))
    ELSE IF s.name = <<"m", "o", "d", "e", "l", "s", "i", "m">>
    THEN With(f, s.cwd \o <<"/", "c", "o", "m", "p", "i", "l", "e", ".", "t", "c", "l">>, File(ModelsimTcl(s)))
    ELSE f

\* _exec, lines 119-124: the command handed to Popen
ExecStr(s, c) ==
    LET exec_str == c.prog \o <<" ">> \o c.args
    IN  IF s.name = <<"v", "i", "v", "a", "d", "o">> THEN exec_str ELSE SplitWs(exec_str, <<>>)

(***************************************************************************)
(* SpecConfig: Simulator(...), the caller's additions, run()               *)
(***************************************************************************)
NoCall == [prog |-> <<>>, args |-> <<>>]
NoChild == [state |-> "none", next |-> [op |-> "none", line |-> <<>>, code |-> 0],
            nlines |-> 0, nerr |-> 0, code |-> 0]

\* the runner's variables while no _exec call is in progress
RunIdle ==
    /\ launched = <<>>
    /\ returned = 0
    /\ child = NoChild
    /\ stdoutPipe = <<>>
    /\ stderrPipe = 0
    /\ output = <<>>
    /\ readLog = <<>>
    /\ written = <<>>
    /\ printed = <<>>

DefIdle == arg = <<>> /\ result = None

\* inputs of the model
ToolNames == Runners \cup {<<"q", "u", "e", "s", "t", "a">>}
ProcDirs == {<<"/", "p">>, <<"/", "t">>}
CwdArgs == {<<"w", "o", "r", "k">>, <<".">>, <<"/", "t">>}
SourceFiles == {<<"a", ".", "s", "v">>, <<"b", ".", "v">>, <<"c", ".", "v", "h", "d">>, <<"/", "x", "/", "d", ".", "s", "v">>}
DefineArgs == {<<"W", "=", "8">>, <<"D", "B", "G">>}
IncdirArgs == {<<"i", "n", "c">>}

FsClean ==
    (<<"/">> :> Dir) @@ (<<"/", "p">> :> Dir) @@ (<<"/", "t">> :> Dir)
    @@ (ModuleFile :> File(<<"i", "m", "p", "o", "r", "t", " ", "s", "u", "b", "p", "r", "o", "c", "e", "s", "s">>))
FsUsed ==
    FsClean @@ (<<"/", "p", "/", "w", "o", "r", "k">> :> Dir) @@ (<<"/", "p", "/", "w", "o", "r", "k", "/", "d", "u", "m", "p", ".", "v", "c", "d">> :> File(<<"$", "d", "a", "t", "e">>))
    @@ (<<"/", "p", "/", "w", "o", "r", "k", "/", "s", "u", "b">> :> Dir) @@ (<<"/", "p", "/", "w", "o", "r", "k", "/", "s", "u", "b", "/", "x">> :> File(<<"x">>))

InitConfig ==
    /\ procdir \in ProcDirs
    /\ fs \in {FsClean, FsUsed}
    /\ fs0 = fs
    /\ ctor \in [name : ToolNames, gui : BOOLEAN, cwd : CwdArgs]
    /\ sim = NoSim
    /\ pc = "new"
    /\ exc = None
    /\ call = NoCall
    /\ RunIdle
    /\ DefIdle

\* sim = Simulator(name, gui, cwd)
New ==
    /\ pc = "new"
    /\ LET r == Construct(ctor.name, ctor.gui, ctor.cwd, procdir, fs)
       IN  /\ exc' = r.exc
           /\ sim' = r.sim
           /\ fs' = r.fs
           /\ pc' = IF r.exc = None THEN "setup" ELSE "raised"
    /\ UNCHANGED <<procdir, fs0, ctor, call, runVars, defVars>>

\* the caller: sim.sources.append(src)
AddSource(src) ==
    /\ pc = "setup"
    /\ Len(sim.sources) < MaxSources
    /\ sim' = [sim EXCEPT !.sources = Append(@, src)]
    /\ UNCHANGED <<procdir, fs, fs0, ctor, pc, exc, call, runVars, defVars>>

\* the caller: sim.defines.append(define)
AddDefine(define) ==
    /\ pc = "setup"
    /\ Len(sim.defines) < MaxDefines
    /\ sim' = [sim EXCEPT !.defines = Append(@, define)]
    /\ UNCHANGED <<procdir, fs, fs0, ctor, pc, exc, call, runVars, defVars>>

\* the caller: sim.incdirs.append(incdir)
AddIncdir(incdir) ==
    /\ pc = "setup"
    /\ Len(sim.incdirs) < MaxIncdirs
    /\ sim' = [sim EXCEPT !.incdirs = Append(@, incdir)]
    /\ UNCHANGED <<procdir, fs, fs0, ctor, pc, exc, call, runVars, defVars>>

\* sim.run(), up to the adapter's first call of _exec
Run ==
    /\ pc = "setup"
    /\ LET s == Preprocess(sim, procdir)
       IN  /\ sim' = s
           /\ fs' = AdapterFiles(s, fs)
           /\ call' = AdapterCalls(s)[1]
    /\ pc' = "exec"
    /\ UNCHANGED <<procdir, fs0, ctor, exc, runVars, defVars>>

NextConfig ==
    \/ New
    \/ \E src \in SourceFiles : AddSource(src)
    \/ \E define \in DefineArgs : AddDefine(define)
    \/ \E incdir \in IncdirArgs : AddIncdir(incdir)
    \/ Run

SpecConfig == InitConfig /\ [][NextConfig]_vars

(***************************************************************************)
(* Spec: the _exec calls of a run, each with its child process             *)
(***************************************************************************)
\* the lines a child may write to its stdout, each with its line end
Lines ==
    {<<"\n">>,
     <<"o", "k", "\n">>,
     <<" ", " ", "o", "k", " ", "\n">>,
     <<"E", "R", "R", "O", "R", ":", " ", "s", "o", "m", "e", "t", "h", "i", "n", "g", " ", "b", "a", "d", "\n">>,
     <<"E", "r", "r", "o", "r", ":", " ", "\n">>,
     <<"a", " ", "E", "r", "r", "o", "r", ":", " ", "E", "R", "R", "O", "R", ":", " ", "b", "\n">>,
     <<"A", "s", "s", "e", "r", "t", "i", "o", "n", " ", "e", "r", "r", "o", "r", "\n">>}

ExitCodes == {0, 2}

Op(op, line, code) == [op |-> op, line |-> line, code |-> code]
NoOp == Op("none", <<>>, 0)

\* a Simulator after run()'s preprocessing, about to make its first _exec call
Prepared(name, gui) ==
    Preprocess([NewSim(name, gui, <<"/", "p", "/", "w", "o", "r", "k">>) EXCEPT
                    !.sources = <<<<"a", ".", "s", "v">>>>, !.defines = <<<<"W", "=", "8">>>>],
               <<"/", "p">>)

Init ==
    /\ procdir = <<"/", "p">>
    /\ fs0 = FsClean
    /\ ctor \in [name : Runners, gui : BOOLEAN, cwd : {<<"w", "o", "r", "k">>}]
    /\ sim = Prepared(ctor.name, ctor.gui)
    /\ fs = AdapterFiles(sim, With(FsClean, <<"/", "p", "/", "w", "o", "r", "k">>, Dir))
    /\ call = AdapterCalls(sim)[1]
    /\ pc = "exec"
    /\ exc = None
    /\ RunIdle
    /\ DefIdle

\* line 125: subprocess.Popen(exec_str, stdout=PIPE, stderr=PIPE)
Popen ==
    /\ pc = "exec"
    /\ launched' = Append(launched, call)
    /\ child' = [NoChild EXCEPT !.state = "running"]
    /\ stdoutPipe' = <<>>
    /\ stderrPipe' = 0
    /\ output' = <<>>
    /\ readLog' = <<>>
    /\ written' = <<>>
    /\ printed' = <<>>
    /\ pc' = "readline"
    /\ UNCHANGED <<cfgVars, exc, returned, defVars>>

\* the child comes to its next system call: a write of a line to stdout, a
\* write of a chunk to stderr, or its exit
ChildDecide(op) ==
    /\ child.state = "running"
    /\ child.next = NoOp
    /\ op.op = "out" => child.nlines < MaxLines
    /\ op.op = "err" => child.nerr < MaxErr
    /\ child' = [child EXCEPT !.next = op]
    /\ UNCHANGED <<cfgVars, pc, exc, launched, returned, stdoutPipe, stderrPipe,
                   output, readLog, written, printed, defVars>>

\* write(1, line): blocks while the stdout pipe is full
ChildWriteStdout ==
    /\ child.state = "running"
    /\ child.next.op = "out"
    /\ Len(stdoutPipe) < PipeCap
    /\ stdoutPipe' = Append(stdoutPipe, child.next.line)
    /\ written' = Append(written, child.next.line)
    /\ child' = [child EXCEPT !.next = NoOp, !.nlines = @ + 1]
    /\ UNCHANGED <<cfgVars, pc, exc, launched, returned, stderrPipe, output,
                   readLog, printed, defVars>>

\* write(2, chunk): blocks while the stderr pipe is full
ChildWriteStderr ==
    /\ child.state = "running"
    /\ child.next.op = "err"
    /\ stderrPipe < PipeCap
    /\ stderrPipe' = stderrPipe + 1
    /\ child' = [child EXCEPT !.next = NoOp, !.nerr = @ + 1]
    /\ UNCHANGED <<cfgVars, pc, exc, launched, returned, stdoutPipe, output,
                   readLog, written, printed, defVars>>

\* exit(code): the write ends of both pipes close
ChildExit ==
    /\ child.state = "running"
    /\ child.next.op = "exit"
    /\ child' = [child EXCEPT !.state = "exited", !.code = child.next.code, !.next = NoOp]
    /\ UNCHANGED <<cfgVars, pc, exc, launched, returned, stdoutPipe, stderrPipe,
                   output, readLog, written, printed, defVars>>

\* child.poll() is not None
Polled == child.state = "exited"

\* line 129: output = child.stdout.readline().decode('utf-8').strip()
\* readline blocks until a line is in the pipe or the write end is closed, and
\* gives '' at end of file
ReadLine ==
    /\ pc = "readline"
    /\ \/ /\ stdoutPipe # <<>>
          /\ output' = Strip(Head(stdoutPipe))
          /\ stdoutPipe' = Tail(stdoutPipe)
       \/ /\ stdoutPipe = <<>>
          /\ child.state # "running"
          /\ output' = Strip(<<>>)
          /\ stdoutPipe' = stdoutPipe
    /\ readLog' = Append(readLog, output')
    /\ pc' = "scan"
    /\ UNCHANGED <<cfgVars, exc, launched, returned, child, stderrPipe, written,
                   printed, defVars>>

\* lines 131-132: if output == '' and child.poll() is not None: break
Break ==
    /\ pc = "scan"
    /\ output = <<>> /\ Polled
    /\ pc' = "retcode"
    /\ UNCHANGED <<cfgVars, exc, runVars, defVars>>

\* lines 135-136: the index of the first err of sim_errors with err in output,
\* from i on; 0 when the for loop ends without a match
RECURSIVE FirstErr(_, _, _)
FirstErr(errs, line, i) ==
    IF i > Len(errs) THEN 0
    ELSE IF Contains(errs[i], line) THEN i
    ELSE FirstErr(errs, line, i + 1)

\* child.kill(): SIGKILL; nothing happens to a child that has exited
Kill(c) == IF c.state = "running" THEN [c EXCEPT !.state = "killed", !.next = NoOp] ELSE c

\* RaiseAssertion without the child.kill() of line 137
RaiseAssertionNoKill ==
    /\ pc = "scan"
    /\ ~(output = <<>> /\ Polled)
    /\ FirstErr(sim.sim_errors, output, 1) # 0
    /\ LET err == sim.sim_errors[FirstErr(sim.sim_errors, output, 1)]
       IN  /\ output' = Replace(output, err, <<>>)
           /\ exc' = Raised("AssertionError", <<output', sim.defines>>)
    /\ pc' = "raised"
    /\ UNCHANGED <<cfgVars, launched, returned, child, stdoutPipe, stderrPipe, readLog,
                   written, printed, defVars>>

\* lines 135-139: child.kill(); raise AssertionError(output.replace(err, ''), defines)
RaiseAssertion ==
    /\ pc = "scan"
    /\ ~(output = <<>> /\ Polled)
    /\ FirstErr(sim.sim_errors, output, 1) # 0
    /\ LET err == sim.sim_errors[FirstErr(sim.sim_errors, output, 1)]
       IN  /\ child' = Kill(child)
           /\ output' = Replace(output, err, <<>>)
           /\ exc' = Raised("AssertionError", <<output', sim.defines>>)
    /\ pc' = "raised"
    /\ UNCHANGED <<cfgVars, launched, returned, stdoutPipe, stderrPipe, readLog,
                   written, printed, defVars>>

\* Echo with print(output) not guarded by `if output`
EchoUnguarded ==
    /\ pc = "scan"
    /\ ~(output = <<>> /\ Polled)
    /\ FirstErr(sim.sim_errors, output, 1) = 0
    /\ printed' = Append(printed, output)
    /\ pc' = "readline"
    /\ UNCHANGED <<cfgVars, exc, launched, returned, child, stdoutPipe, stderrPipe,
                   output, readLog, written, defVars>>

\* lines 141-142: if output: print(output); then the next iteration
Echo ==
    /\ pc = "scan"
    /\ ~(output = <<>> /\ Polled)
    /\ FirstErr(sim.sim_errors, output, 1) = 0
    /\ printed' = IF output # <<>> THEN Append(printed, output) ELSE printed
    /\ pc' = "readline"
    /\ UNCHANGED <<cfgVars, exc, launched, returned, child, stdoutPipe, stderrPipe,
                   output, readLog, written, defVars>>

\* CheckRetcode with the test of line 146 taken as `if self.retcode < 0`
CheckRetcodeNegative ==
    /\ pc = "retcode"
    /\ sim' = [sim EXCEPT !.retcode = child.code]
    /\ IF child.code < 0
       THEN /\ exc' = Raised("RuntimeError", <<ExecStr(sim, call), child.code>>)
            /\ pc' = "raised"
            /\ UNCHANGED <<returned, call>>
       ELSE /\ returned' = returned + 1
            /\ exc' = exc
            /\ IF returned' < Len(AdapterCalls(sim))
               THEN call' = AdapterCalls(sim)[returned' + 1] /\ pc' = "exec"
               ELSE call' = call /\ pc' = "done"
    /\ UNCHANGED <<procdir, fs, fs0, ctor, launched, child, stdoutPipe, stderrPipe,
                   output, readLog, written, printed, defVars>>

\* CheckRetcode with the adapter going on to its next call after a failure
CheckRetcodeGoOn ==
    /\ pc = "retcode"
    /\ sim' = [sim EXCEPT !.retcode = child.code]
    /\ exc' = IF child.code # 0
              THEN Raised("RuntimeError", <<ExecStr(sim, call), child.code>>) ELSE exc
    /\ returned' = returned + 1
    /\ IF returned' < Len(AdapterCalls(sim))
       THEN call' = AdapterCalls(sim)[returned' + 1] /\ pc' = "exec"
       ELSE call' = call /\ pc' = IF child.code # 0 THEN "raised" ELSE "done"
    /\ UNCHANGED <<procdir, fs, fs0, ctor, launched, child, stdoutPipe, stderrPipe,
                   output, readLog, written, printed, defVars>>

\* lines 145-147: self.retcode = child.returncode; raise RuntimeError if it is
\* not zero; otherwise _exec returns and the adapter goes on to its next call
CheckRetcode ==
    /\ pc = "retcode"
    /\ sim' = [sim EXCEPT !.retcode = child.code]
    /\ IF child.code # 0
       THEN /\ exc' = Raised("RuntimeError", <<ExecStr(sim, call), child.code>>)
            /\ pc' = "raised"
            /\ UNCHANGED <<returned, call>>
       ELSE /\ returned' = returned + 1
            /\ exc' = exc
            /\ IF returned' < Len(AdapterCalls(sim))
               THEN call' = AdapterCalls(sim)[returned' + 1] /\ pc' = "exec"
               ELSE call' = call /\ pc' = "done"
    /\ UNCHANGED <<procdir, fs, fs0, ctor, launched, child, stdoutPipe, stderrPipe,
                   output, readLog, written, printed, defVars>>

ChildOps ==
    {Op("out", l, 0) : l \in Lines} \cup {Op("err", <<>>, 0)}
    \cup {Op("exit", <<>>, c) : c \in ExitCodes}

Next ==
    \/ Popen
    \/ \E op \in ChildOps : ChildDecide(op)
    \/ ChildWriteStdout
    \/ ChildWriteStderr
    \/ ChildExit
    \/ ReadLine
    \/ Break
    \/ RaiseAssertion
    \/ Echo
    \/ CheckRetcode

Spec == Init /\ [][Next]_vars

(***************************************************************************)
(* SpecDefine: sim.get_define(name)                                        *)
(***************************************************************************)
DefineStrings == {<<"W", "I", "D", "T", "H", "=", "8">>, <<"S", "I", "M">>, <<"X", "W", "I", "D", "T", "H", "=", "1">>, <<"T", "O", "P", "_", "N", "A", "M", "E", "=", "t", "o", "p">>}
DefineNames == {<<"W", "I", "D", "T", "H">>, <<"S", "I", "M">>, <<"W", "I", "D">>, <<"D", "E", "P", "T", "H">>, <<"T", "O", "P", "_", "N", "A", "M", "E">>}

RECURSIVE ListsUpTo(_, _)
ListsUpTo(S, n) ==
    IF n = 0 THEN {<<>>}
    ELSE ListsUpTo(S, n - 1)
         \cup {Append(l, x) : l \in {m \in ListsUpTo(S, n - 1) : Len(m) = n - 1}, x \in S}

InitDefine ==
    /\ procdir = <<"/", "p">>
    /\ fs0 = FsClean
    /\ fs = With(FsClean, <<"/", "p", "/", "w", "o", "r", "k">>, Dir)
    /\ ctor = [name |-> <<"i", "c", "a", "r", "u", "s">>, gui |-> FALSE, cwd |-> <<"w", "o", "r", "k">>]
    /\ \E defines \in ListsUpTo(DefineStrings, MaxList) :
          sim = [NewSim(ctor.name, ctor.gui, <<"/", "p", "/", "w", "o", "r", "k">>) EXCEPT !.defines = defines]
    /\ pc = "setup"
    /\ exc = None
    /\ call = NoCall
    /\ RunIdle
    /\ arg \in DefineNames
    /\ result = None

\* lines 106-108: Simulator.get_define(name)
GetDefine ==
    /\ pc = "setup"
    /\ result' = get_define(arg, sim.defines)
    /\ pc' = "returned"
    /\ UNCHANGED <<cfgVars, exc, runVars, arg>>

NextDefine == GetDefine

SpecDefine == InitDefine /\ [][NextDefine]_vars

(***************************************************************************)
(* The claims                                                              *)
(***************************************************************************)
\* the marker strings, as the specification lists them
MarkerSet == {<<"$", "e", "r", "r", "o", "r", " ", ":", " ">>, <<"E", "r", "r", "o", "r", ":", " ">>, <<"E", "R", "R", "O", "R", ":", " ">>, <<"A", "s", "s", "e", "r", "t", "i", "o", "n", " ", "e", "r", "r", "o", "r">>}
MarkersIn(line) == {m \in MarkerSet : Contains(m, line)}

\* the lines of readLog the loop body has dealt with: all but the one just read
Handled == IF pc = "scan" THEN SubSeq(readLog, 1, Len(readLog) - 1) ELSE readLog

C2_LoopDrainsStdout == pc = "retcode" => stdoutPipe = <<>>

\* the child's whole output, raw, holds no marker
NoMarkerWritten == \A i \in 1..Len(written) : MarkersIn(written[i]) = {}

\* C3: when the _exec call has ended and nothing the child wrote holds a
\* marker, a non-zero exit code has raised RuntimeError with the command and
\* the code, which self.retcode holds too, and a zero exit code has raised
\* nothing; RuntimeError is never raised in a call that read a marker line.
C3_ExitCodeCheck ==
    /\ (child.state = "exited" /\ pc \in {"exec", "done", "raised"} /\ NoMarkerWritten)
       => IF child.code # 0
          THEN /\ pc = "raised"
               /\ exc.type = "RuntimeError"
               /\ exc.args = <<ExecStr(sim, launched[Len(launched)]), child.code>>
               /\ sim.retcode = child.code
          ELSE /\ pc # "raised"
               /\ exc = None
               /\ returned = Len(launched)
    /\ exc.type = "RuntimeError"
       => \A k \in 1..Len(readLog) : MarkersIn(readLog[k]) = {}

\* C3 witness: exit code 2 after output without a marker
C3_Witness ==
    /\ pc = "raised"
    /\ exc.type = "RuntimeError"
    /\ exc.args[2] = 2
    /\ written # <<>>
    /\ NoMarkerWritten

C9_IcarusOrder ==
    sim.name = <<"i", "c", "a", "r", "u", "s">> =>
        LET progs == [i \in 1..Len(launched) |-> launched[i].prog]
            all == <<<<"i", "v", "e", "r", "i", "l", "o", "g">>, <<"v", "v", "p">>, <<"g", "t", "k", "w", "a", "v", "e">>>>
        IN  /\ Len(progs) <= 3 /\ progs = SubSeq(all, 1, Len(progs))
            /\ Len(progs) = 3 => sim.gui
            /\ pc = "done" => Len(progs) = IF sim.gui THEN 3 ELSE 2
            /\ returned <= Len(launched) /\ Len(launched) <= returned + 1
            /\ (pc = "exec" /\ launched # <<>>)
               => /\ child.state = "exited" /\ child.code = 0
                  /\ \A k \in 1..Len(readLog) : MarkersIn(readLog[k]) = {}
            /\ exc # None => pc = "raised" /\ Len(launched) = returned + 1

\* C9 witness: a gui run in which all three programs ran
C9_Witness ==
    /\ sim.name = <<"i", "c", "a", "r", "u", "s">>
    /\ pc = "done"
    /\ Len(launched) = 3
    /\ launched[3].prog = <<"g", "t", "k", "w", "a", "v", "e">>

\* C10: the runner is never blocked in readline while the child is blocked in
\* a write
RunnerBlocked == pc = "readline" /\ stdoutPipe = <<>> /\ child.state = "running"
ChildBlocked ==
    /\ child.state = "running"
    /\ \/ child.next.op = "err" /\ stderrPipe >= PipeCap
       \/ child.next.op = "out" /\ Len(stdoutPipe) >= PipeCap
C10_NoDeadlock == ~(RunnerBlocked /\ ChildBlocked)

\* C5: a tool name outside the three, or a working directory that is the
\* directory of pyhdlsim.py, raises ValueError and leaves the file system as
\* it was; the file system changes only after both checks have passed.
C5_Rejected ==
    \/ ctor.name \notin {<<"i", "c", "a", "r", "u", "s">>, <<"m", "o", "d", "e", "l", "s", "i", "m">>, <<"v", "i", "v", "a", "d", "o">>}
    \/ Resolve(ctor.cwd, procdir) = <<"/", "t">>
C5_ConfigurationError ==
    /\ (pc # "new" /\ C5_Rejected)
       => pc = "raised" /\ exc.type = "ValueError" /\ fs = fs0
    /\ fs # fs0 => ~C5_Rejected

\* C5 witness: an unknown tool name, given a workspace that holds files
C5_Witness ==
    /\ pc = "raised"
    /\ exc.type = "ValueError"
    /\ ctor.name = <<"q", "u", "e", "s", "t", "a">>
    /\ <<"/", "p", "/", "w", "o", "r", "k", "/", "s", "u", "b", "/", "x">> \in DOMAIN fs
    /\ Resolve(ctor.cwd, procdir) = <<"/", "p", "/", "w", "o", "r", "k">>

\* the words of the argument string that follow each occurrence of flag
RECURSIVE ValuesOf(_, _)
ValuesOf(w, flag) ==
    IF Len(w) < 2 THEN <<>>
    ELSE IF w[1] = flag THEN <<w[2]>> \o ValuesOf(SubSeq(w, 3, Len(w)), flag)
    ELSE ValuesOf(Tail(w), flag)

\* C6: in the argument string given to iverilog the values of the -D flags are
\* the defines, one flag each, in list order, and the string ends with the
\* source files in list order, every flag standing before them.
C6_IcarusArgs ==
    (pc = "exec" /\ sim.name = <<"i", "c", "a", "r", "u", "s">>) =>
        LET w == SplitWs(call.args, <<>>)
            n == Len(sim.sources)
            flags == Len(w) - n
        IN  /\ call.prog = <<"i", "v", "e", "r", "i", "l", "o", "g">>
            /\ ValuesOf(w, <<"-", "D">>) = sim.defines
            /\ Cardinality({i \in 1..Len(w) : w[i] = <<"-", "D">>}) = Len(sim.defines)
            /\ flags = 2 * Len(sim.incdirs) + 2 * Len(sim.defines) + 5
            /\ SubSeq(w, flags + 1, Len(w)) = sim.sources
            /\ \A i \in 1..Len(w) : Head(w[i]) = "-" => i < flags
            /\ w[flags - 1] = <<"-", "o">>

\* C6 witness: two source files and three defines
C6_Witness ==
    /\ pc = "exec"
    /\ sim.name = <<"i", "c", "a", "r", "u", "s">>
    /\ Len(sim.sources) >= 2
    /\ Len(sim.defines) >= 3
    /\ sim.sources[1] # sim.sources[2]

\* the text before the first '=' of a define, and the text after it
RECURSIVE Find(_, _, _)
Find(s, c, i) == IF i > Len(s) THEN 0 ELSE IF s[i] = c THEN i ELSE Find(s, c, i + 1)
NameOf(d) == IF Find(d, "=", 1) = 0 THEN d ELSE SubSeq(d, 1, Find(d, "=", 1) - 1)
ValueOf(d) == SubSeq(d, Find(d, "=", 1) + 1, Len(d))

\* C7: get_define returns the value of the first define named `name`, and None
\* when no define of the list has that name
C7_Lookup ==
    pc = "returned" =>
        LET named == {i \in 1..Len(sim.defines) : NameOf(sim.defines[i]) = arg}
        IN  /\ named = {} => result = None
            /\ \A i \in named :
                   ((\A j \in named : i <= j) /\ Find(sim.defines[i], "=", 1) # 0)
                   => result = StrVal(ValueOf(sim.defines[i]))

\* the lines of a text, each without its line end
RECURSIVE TextLines(_, _)
TextLines(text, line) ==
    IF text = <<>> THEN (IF line = <<>> THEN <<>> ELSE <<line>>)
    ELSE IF Head(text) = "\n" THEN <<line>> \o TextLines(Tail(text), <<>>)
    ELSE TextLines(Tail(text), Append(line, Head(text)))

\* the language tag the specification gives a source file
LanguageOf(src) ==
    LET n == Len(src) IN
    IF n >= 3 /\ SubSeq(src, n - 2, n) = <<".", "s", "v">> THEN <<"s", "v">>
    ELSE IF n >= 2 /\ SubSeq(src, n - 1, n) = <<".", "v">> THEN <<"v", "e", "r", "i", "l", "o", "g">>
    ELSE IF n >= 4 /\ SubSeq(src, n - 3, n) = <<".", "v", "h", "d">> THEN <<"v", "h", "d", "l">>
    ELSE <<>>

\* C8: files.prj holds one line '<language> work <path>' per source, in source
\* order, with sv for .sv, verilog for .v and vhdl for .vhd
C8_ProjectFile ==
    (pc = "exec" /\ sim.name = <<"v", "i", "v", "a", "d", "o">>) =>
        LET prj == TextLines(fs[sim.cwd \o <<"/", "f", "i", "l", "e", "s", ".", "p", "r", "j">>].text, <<>>)
        IN  /\ Len(prj) = Len(sim.sources)
            /\ \A i \in 1..Len(sim.sources) :
                   i <= Len(prj) =>
                   prj[i] = LanguageOf(sim.sources[i]) \o <<" ", "w", "o", "r", "k", " ">> \o sim.sources[i]

====
